---- MODULE Spec2Model ----
(***************************************************************************)
(* ChronoPersona: the persona plugin (src/main.py) and its PersonaManager  *)
(* (src/persona_manager.py).                                               *)
(*                                                                         *)
(* Text is modelled as a sequence of atoms.  An atom is one character of   *)
(* the original text (written in pinyin, e.g. "ni" "hao") or one fixed     *)
(* literal chunk of a format string (e.g. "Guidelines:").  SP and NL are   *)
(* the blank and the line break; they are the only whitespace atoms.       *)
(* A Python dict is modelled as a sequence of [k, v] entries with distinct *)
(* keys, in insertion order.                                               *)
(***************************************************************************)
EXTENDS Naturals, Sequences, FiniteSets, TLC

VARIABLES
    config,                 \* self.config (config.json)
    base_templates,         \* ChronoPersonaPlugin.base_templates: role -> persona
    user_preferences,       \* ChronoPersonaPlugin.user_preferences: user -> prefs
    conversation_history,   \* ChronoPersonaPlugin.conversation_history: user -> messages
    persona_files,          \* the files of user_personas/: user -> file
    template_files,         \* the listing of the template directory being loaded
    call                    \* the last operation: its arguments and what it did

vars == <<config, base_templates, user_preferences, conversation_history,
          persona_files, template_files, call>>

----------------------------------------------------------------------------
(* Bounds of the model *)

MaxQuickLen == 4        \* longest message given to check_quick_response alone
MaxWeight == 2          \* largest weight of a stored or incoming trait
MaxFiles == 3           \* longest template directory listing
MaxHistory == 1         \* largest max_history_analysis
MaxTraits == 3          \* most traits of a record given to generate_prompt_modifier alone
MaxMessages == 4        \* longest list given to analyze_conversation alone

----------------------------------------------------------------------------
(* Text *)

SP == "SP"
NL == "NL"
Whitespace == {SP, NL}

None == "None"

IsSubstr(p, s) ==
    \E i \in 0..Len(s) : i + Len(p) <= Len(s) /\ SubSeq(s, i + 1, i + Len(p)) = p

\* str.lower(): the pinyin atoms stand for CJK characters, which have no case
LowerAtom(c) == IF c = "A" THEN "a" ELSE c

Lower(s) == [i \in 1..Len(s) |-> LowerAtom(s[i])]

RECURSIVE LStrip(_)
LStrip(s) == IF s # <<>> /\ Head(s) \in Whitespace THEN LStrip(Tail(s)) ELSE s

RECURSIVE RStrip(_)
RStrip(s) ==
    IF s # <<>> /\ s[Len(s)] \in Whitespace THEN RStrip(SubSeq(s, 1, Len(s) - 1)) ELSE s

\* str.strip()
Strip(s) == RStrip(LStrip(s))

\* sep.join(parts)
RECURSIVE Join(_, _)
Join(sep, parts) ==
    IF parts = <<>> THEN <<>>
    ELSE IF Len(parts) = 1 THEN parts[1]
    ELSE parts[1] \o sep \o Join(sep, Tail(parts))

\* every sequence over S of length at most n
SeqsUpTo(S, n) == UNION {[1..k -> S] : k \in 0..n}

----------------------------------------------------------------------------
(* dict *)

Keys(d) == {d[i].k : i \in 1..Len(d)}

Has(d, key) == key \in Keys(d)

\* d[key], for a key of d
Get(d, key) == d[CHOOSE i \in 1..Len(d) : d[i].k = key].v

\* d[key] = val: an existing key keeps its place, a new key goes last
Put(d, key, val) ==
    IF Has(d, key)
    THEN [i \in 1..Len(d) |-> IF d[i].k = key THEN [k |-> key, v |-> val] ELSE d[i]]
    ELSE Append(d, [k |-> key, v |-> val])

\* every dict with at most n entries, keys from K and values from V
DictsUpTo(K, V, n) ==
    {d \in SeqsUpTo([k : K, v : V], n) :
        \A i, j \in 1..Len(d) : d[i].k = d[j].k => i = j}

----------------------------------------------------------------------------
(* PersonaManager.init_quick_responses and check_quick_response *)

GreetingFirstTime == "GreetingFirstTime"
GreetingNormal == "GreetingNormal"
GreetingFamiliar == "GreetingFamiliar"
FarewellNormal == "FarewellNormal"
FarewellFamiliar == "FarewellFamiliar"

\* ni hao / mao mao / miao miao / zaiL ma / zaiL bu zaiL
GreetingPatterns ==
    << <<"ni", "hao">>, <<"mao", "mao">>, <<"miao", "miao">>,
       <<"zaiL", "ma">>, <<"zaiL", "bu", "zaiL">> >>

\* zaiJ jian / bai bai / wan an / xia ci jian
FarewellPatterns ==
    << <<"zaiJ", "jian">>, <<"bai", "bai">>, <<"wan", "an">>,
       <<"xia", "ci", "jian">> >>

\* the pattern groups declared farewell first
quick_patterns_reordered ==
    << [k |-> "farewell",
        v |-> [patterns |-> FarewellPatterns,
               responses |-> << [k |-> "normal", v |-> FarewellNormal],
                                [k |-> "familiar", v |-> FarewellFamiliar] >>]],
       [k |-> "greeting",
        v |-> [patterns |-> GreetingPatterns,
               responses |-> << [k |-> "first_time", v |-> GreetingFirstTime],
                                [k |-> "normal", v |-> GreetingNormal],
                                [k |-> "familiar", v |-> GreetingFamiliar] >>]] >>

quick_patterns ==
    << [k |-> "greeting",
        v |-> [patterns |-> GreetingPatterns,
               responses |-> << [k |-> "first_time", v |-> GreetingFirstTime],
                                [k |-> "normal", v |-> GreetingNormal],
                                [k |-> "familiar", v |-> GreetingFamiliar] >>]],
       [k |-> "farewell",
        v |-> [patterns |-> FarewellPatterns,
               responses |-> << [k |-> "normal", v |-> FarewellNormal],
                                [k |-> "familiar", v |-> FarewellFamiliar] >>]] >>

\* the loop of check_quick_response from the i-th pattern group on
RECURSIVE QuickScan(_, _)
QuickScan(message, i) ==
    IF i > Len(quick_patterns) THEN None
    ELSE LET pattern_data == quick_patterns[i].v
         IN  IF \E n \in 1..Len(pattern_data.patterns) :
                    IsSubstr(pattern_data.patterns[n], message)
             THEN Get(pattern_data.responses, "normal")
             ELSE QuickScan(message, i + 1)

check_quick_response(message) == QuickScan(Lower(message), 1)

----------------------------------------------------------------------------
(* The last operation.  result is what it returned (None when it returned  *)
(* nothing), raised whether it ended by raising, calls the PersonaManager  *)
(* methods it called, in order.                                            *)

NoUser == "nobody"

Idle ==
    [op |-> "none", user |-> NoUser, message |-> <<>>, new_traits |-> <<>>,
     before |-> <<>>, segmenter |-> "unused", result |-> None, raised |-> FALSE,
     calls |-> <<>>]

----------------------------------------------------------------------------
(* check_quick_response alone, on every message over QuickAlphabet *)

QuickAlphabet == {"ni", "hao", "mao", "zaiL", "bu", "zaiJ", "jian", "bai", "A"}

QuickMessages == SeqsUpTo(QuickAlphabet, MaxQuickLen)

NoConfig == [default_template |-> "none", min_keyword_frequency |-> 0,
             max_history_analysis |-> 0]

\* the message is drawn here, and check_quick_response is applied to it once
InitQuick ==
    /\ config = NoConfig
    /\ base_templates = <<>>
    /\ user_preferences = <<>>
    /\ conversation_history = <<>>
    /\ persona_files = <<>>
    /\ template_files = <<>>
    /\ call \in {[Idle EXCEPT !.message = m] : m \in QuickMessages}

CheckQuickResponse ==
    /\ call.op = "none"
    /\ call' = [call EXCEPT !.op = "check_quick_response",
                            !.result = check_quick_response(call.message),
                            !.calls = <<"check_quick_response">>]
    /\ UNCHANGED <<config, base_templates, user_preferences,
                   conversation_history, persona_files, template_files>>

NextQuick == CheckQuickResponse

SpecQuick == InitQuick /\ [][NextQuick]_vars

----------------------------------------------------------------------------
(* PersonaManager.load_user_persona and update_user_persona.               *)
(* A file of user_personas/ is [json_ok, data]: json_ok is whether         *)
(* json.load can read it, data the object it holds.  A user without a file *)
(* is not in the domain of persona_files.                                  *)

Max(a, b) == IF a >= b THEN a ELSE b

NoPersona == [traits |-> <<>>, last_updated |-> None]

load_user_persona(files, user_id) ==
    IF user_id \in DOMAIN files
    THEN IF files[user_id].json_ok
         THEN [raised |-> FALSE, value |-> files[user_id].data]
         ELSE [raised |-> TRUE, value |-> NoPersona]
    ELSE [raised |-> FALSE, value |-> NoPersona]

\* a merge that keeps the smaller weight
MergeWeightMin(old, count) == IF old <= count THEN old ELSE count

\* the weight kept for a trait that is already stored
MergeWeight(old, count) == Max(old, count)

\* the loop "for trait, count in new_traits.items()"
RECURSIVE MergeTraits(_, _)
MergeTraits(traits, new_traits) ==
    IF new_traits = <<>> THEN traits
    ELSE LET trait == Head(new_traits).k
             count == Head(new_traits).v
             merged == IF Has(traits, trait)
                       THEN Put(traits, trait, MergeWeight(Get(traits, trait), count))
                       ELSE Put(traits, trait, count)
         IN  MergeTraits(merged, Tail(new_traits))

\* the comprehension that drops the low-frequency traits
CleanTraits(traits, min_frequency) ==
    SelectSeq(traits, LAMBDA e : e.v >= min_frequency)

\* [raised, files]: whether update_user_persona raised, and the files after it
update_user_persona(files, user_id, new_traits, min_frequency) ==
    LET loaded == load_user_persona(files, user_id)
    IN  IF loaded.raised \/ "traits" \notin DOMAIN loaded.value
        THEN [raised |-> TRUE, files |-> files]
        ELSE LET traits == CleanTraits(MergeTraits(loaded.value.traits, new_traits),
                                       min_frequency)
                 persona == [loaded.value EXCEPT !.traits = traits]
             IN  [raised |-> FALSE,
                  files |-> (user_id :> [json_ok |-> TRUE, data |-> persona]) @@ files]

----------------------------------------------------------------------------
(* update_user_persona alone, on every stored record and incoming traits   *)
(* over MergeTags with weights up to MaxWeight                             *)

IdentityRelation == "identity_relation"   \* the category of "you are my ..."
AddressForm == "address_form"             \* the category of "call me ..."
SpeechFeature == "speech_feature"         \* the category of "often use ..."

\* f"{category}:{word}"
TraitTag(category, word) == <<category, ":">> \o word

MergeTags ==
    {TraitTag(IdentityRelation, <<"zhu", "ren">>),
     TraitTag(AddressForm, <<"qian", "bei">>),
     TraitTag(SpeechFeature, <<"miao">>)}

MergeDicts == DictsUpTo(MergeTags, 1..MaxWeight, Cardinality(MergeTags))

User1 == "u1"

\* the files a user may have: none, unreadable, without traits, with traits
MergeFiles ==
    {<<>>}
    \cup {(User1 :> [json_ok |-> FALSE, data |-> NoPersona])}
    \cup {(User1 :> [json_ok |-> TRUE, data |-> [last_updated |-> None]])}
    \cup {(User1 :> [json_ok |-> TRUE, data |-> [NoPersona EXCEPT !.traits = d]]) :
             d \in MergeDicts}

StoredTraits(files, user_id) ==
    IF user_id \in DOMAIN files /\ files[user_id].json_ok
       /\ "traits" \in DOMAIN files[user_id].data
    THEN files[user_id].data.traits
    ELSE <<>>

InitMerge ==
    /\ config \in {[NoConfig EXCEPT !.min_keyword_frequency = f] : f \in 0..(MaxWeight + 1)}
    /\ base_templates = <<>>
    /\ user_preferences = <<>>
    /\ conversation_history = <<>>
    /\ persona_files \in MergeFiles
    /\ template_files = <<>>
    /\ call \in {[Idle EXCEPT !.user = User1, !.new_traits = d] : d \in MergeDicts}

UpdateUserPersona ==
    /\ call.op = "none"
    /\ LET done == update_user_persona(persona_files, call.user, call.new_traits,
                                       config.min_keyword_frequency)
       IN  /\ persona_files' = done.files
           /\ call' = [call EXCEPT !.op = "update_user_persona",
                                   !.before = StoredTraits(persona_files, call.user),
                                   !.raised = done.raised,
                                   !.calls = <<"update_user_persona">>]
    /\ UNCHANGED <<config, base_templates, user_preferences,
                   conversation_history, template_files>>

NextMerge == UpdateUserPersona

SpecMerge == InitMerge /\ [][NextMerge]_vars

----------------------------------------------------------------------------
(* PersonaManager.analyze_conversation.  jieba.cut is external: it either  *)
(* fails or yields some segmentation of the text into consecutive words.   *)

\* config['persona_settings']['priority_traits']: category -> words
priority_traits ==
    << [k |-> IdentityRelation, v |-> << <<"zhu", "ren">> >>],
       [k |-> AddressForm, v |-> << <<"qian", "bei">> >>],
       [k |-> SpeechFeature, v |-> << <<"miao">> >>] >>

\* s[-n:] for n >= 0 (s[-0:] is all of s)
LastN(s, n) ==
    IF n = 0 \/ Len(s) <= n THEN s ELSE SubSeq(s, Len(s) - n + 1, Len(s))

\* all messages joined, without the [-3:]
CombinedTextAll(messages) == Join(<<SP>>, messages)

\* the text analyze_conversation segments, for a non-empty list
CombinedText(messages) ==
    IF Len(messages) > 1 THEN Join(<<SP>>, LastN(messages, 3)) ELSE messages[1]

\* every way to cut a text into consecutive non-empty words
RECURSIVE Segmentations(_)
Segmentations(text) ==
    IF text = <<>> THEN {<<>>}
    ELSE UNION {{<<SubSeq(text, 1, n)>> \o rest :
                    rest \in Segmentations(SubSeq(text, n + 1, Len(text)))} :
                n \in 1..Len(text)}

CutFailed == [ok |-> FALSE, words |-> <<>>]

\* what jieba.cut(text) may do
CutOutcomes(text) == {CutFailed} \cup {[ok |-> TRUE, words |-> w] : w \in Segmentations(text)}

\* Counter(words): each word with its number of occurrences, in order of
\* first occurrence
RECURSIVE Counter(_)
Counter(words) ==
    IF words = <<>> THEN <<>>
    ELSE LET init == Counter(SubSeq(words, 1, Len(words) - 1))
             word == words[Len(words)]
         IN  IF Has(init, word) THEN Put(init, word, Get(init, word) + 1)
             ELSE Put(init, word, 1)

InList(x, list) == \E i \in 1..Len(list) : list[i] = x

\* the inner loop over priority_traits for one counted word
RECURSIVE MatchCategories(_, _, _, _)
MatchCategories(trait_counter, word, count, i) ==
    IF i > Len(priority_traits) THEN trait_counter
    ELSE LET category == priority_traits[i].k
             traits == priority_traits[i].v
             next == IF InList(word, traits)
                     THEN Put(trait_counter, TraitTag(category, word), count)
                     ELSE trait_counter
         IN  MatchCategories(next, word, count, i + 1)

\* the outer loop over word_counter.items()
RECURSIVE MatchTraits(_, _)
MatchTraits(trait_counter, word_counter) ==
    IF word_counter = <<>> THEN trait_counter
    ELSE MatchTraits(MatchCategories(trait_counter, Head(word_counter).k,
                                     Head(word_counter).v, 1),
                     Tail(word_counter))

\* [raised, value]: cut is what jieba.cut does on the combined text
analyze_conversation(messages, cut) ==
    IF messages = <<>> THEN [raised |-> FALSE, value |-> <<>>]
    ELSE IF ~cut.ok THEN [raised |-> TRUE, value |-> <<>>]
    ELSE [raised |-> FALSE, value |-> MatchTraits(<<>>, Counter(cut.words))]

----------------------------------------------------------------------------
(* ChronoPersonaPlugin.handle_person_message *)

\* the test of the quick response, inverted
QuickReplyInverted(quick_response) == quick_response = None

\* "if quick_response:" (every canned response is a non-empty string)
QuickReply(quick_response) == quick_response # None

\* a threshold that lets messages of length 5 through
LongEnoughFrom5(message) == Len(message) >= 5

\* "if len(message) > 5"
LongEnough(message) == Len(message) > 5

\* the handler on one event; analysis is what analyze_conversation([message])
\* does if it is reached
HandleEvent(user_id, message, analysis) ==
    LET quick_response == check_quick_response(message)
        history == IF user_id \in DOMAIN conversation_history
                   THEN conversation_history[user_id] ELSE <<>>
        trimmed == LastN(Append(history, message), config.max_history_analysis)
        update == update_user_persona(persona_files, user_id, analysis.value,
                                      config.min_keyword_frequency)
        this == [Idle EXCEPT !.op = "handle_person_message", !.user = user_id,
                             !.message = message]
    IN  IF QuickReply(quick_response)
        THEN /\ call' = [this EXCEPT !.result = quick_response,
                                     !.calls = <<"check_quick_response">>]
             /\ UNCHANGED <<conversation_history, persona_files>>
        ELSE /\ conversation_history' = (user_id :> trimmed) @@ conversation_history
             /\ IF ~LongEnough(message)
                THEN /\ call' = [this EXCEPT !.calls = <<"check_quick_response">>]
                     /\ UNCHANGED persona_files
                ELSE IF analysis.raised
                THEN /\ call' = [this EXCEPT !.segmenter = "failed", !.raised = TRUE,
                                             !.calls = <<"check_quick_response",
                                                         "analyze_conversation">>]
                     /\ UNCHANGED persona_files
                ELSE IF analysis.value = <<>>
                THEN /\ call' = [this EXCEPT !.segmenter = "ok",
                                             !.calls = <<"check_quick_response",
                                                         "analyze_conversation">>]
                     /\ UNCHANGED persona_files
                ELSE /\ call' = [this EXCEPT !.segmenter = "ok",
                                             !.new_traits = analysis.value,
                                             !.raised = update.raised,
                                             !.calls = <<"check_quick_response",
                                                         "analyze_conversation",
                                                         "update_user_persona">>]
                     /\ persona_files' = update.files

Users == {User1, "u2"}

\* the messages that arrive: with and without a trigger, with and without
\* trait words, of length below, at and above the analysis threshold
MessagePool ==
    { <<"ni", "hao">>,
      <<"wan", "an">>,
      <<"zhu", "ren", "x", "x", "miao">>,
      <<"zhu", "ren", "zhu", "ren", "miao", "x">>,
      <<"zhu", "ren", "x", "x", "miao", "miao">> }

\* for each message, what analyze_conversation([message]) may do: one
\* outcome for each thing jieba.cut may do on it (a single outcome for a
\* message the handler does not analyse)
AnalysisOutcomes ==
    [message \in MessagePool |->
        IF QuickReply(check_quick_response(message)) \/ ~LongEnough(message)
        THEN {analyze_conversation(<<>>, CutFailed)}
        ELSE {analyze_conversation(<<message>>, cut) : cut \in CutOutcomes(message)}]

Init ==
    /\ config \in {[NoConfig EXCEPT !.min_keyword_frequency = f,
                                    !.max_history_analysis = h] :
                       f \in {1, 2}, h \in 1..MaxHistory}
    /\ base_templates = <<>>
    /\ user_preferences = <<>>
    /\ conversation_history = <<>>
    /\ persona_files = <<>>
    /\ template_files = <<>>
    /\ call = Idle

HandlePersonMessage ==
    /\ \E user_id \in Users, message \in MessagePool :
          \E analysis \in AnalysisOutcomes[message] :
              HandleEvent(user_id, message, analysis)
    /\ UNCHANGED <<config, base_templates, user_preferences, template_files>>

Next == HandlePersonMessage

Spec == Init /\ [][Next]_vars

----------------------------------------------------------------------------
(* ChronoPersonaPlugin.format_template, PersonaManager.generate_prompt_    *)
(* modifier and ChronoPersonaPlugin.get_persona_prompt.  A template        *)
(* (persona) and a preference object are functions from their field names; *)
(* a missing field is not in the domain.  Each operator yields             *)
(* [raised, value].                                                        *)

CatgirlMarker == <<"mao", "niang">>

CatgirlInstruction == <<"Attention:", SP, "EveryAnswerMustBeginOrEndWith", "miao~">>

CatgirlReminder == <<"RememberToKeepTheToneOf", "mao", "niang", "miao~">>

FallbackPrompt == <<"YouAreAFriendlyAssistant", ",", "SpeakCalmly", ".">>

Raise == [raised |-> TRUE, value |-> <<>>]

Return(v) == [raised |-> FALSE, value |-> v]

\* template.get(field, '')
FieldOrEmpty(template, field) ==
    IF field \in DOMAIN template THEN template[field] ELSE <<>>

format_template(template) ==
    LET is_catgirl == IsSubstr(CatgirlMarker, FieldOrEmpty(template, "identity"))
    IN  IF {"identity", "principles", "language_style"} \subseteq DOMAIN template
        THEN LET bullets == [i \in 1..Len(template.principles) |->
                                <<"-", SP>> \o template.principles[i]]
                 formatted ==
                     template.identity \o <<NL, NL>> \o <<"Guidelines:", NL>>
                     \o Join(<<NL>>, bullets)
                     \o <<NL, NL, "SpeakingStyle:", SP>>
                     \o FieldOrEmpty(template, "speaking_style") \o <<NL>>
                     \o <<"LanguageStyle:", SP>> \o template.language_style
             IN  Return(IF is_catgirl
                        THEN formatted \o <<NL, NL>> \o CatgirlInstruction
                        ELSE formatted)
        ELSE Raise

\* s.split(sep), for a one-atom separator
RECURSIVE Split(_, _)
Split(s, sep) ==
    IF \E i \in 1..Len(s) : s[i] = sep
    THEN LET i == CHOOSE j \in 1..Len(s) : s[j] = sep /\ \A n \in 1..(j - 1) : s[n] # sep
         IN  <<SubSeq(s, 1, i - 1)>> \o Split(SubSeq(s, i + 1, Len(s)), sep)
    ELSE <<s>>

\* e goes after every entry whose weight is at least its own
RECURSIVE InsertByWeight(_, _)
InsertByWeight(sorted, e) ==
    IF sorted = <<>> THEN <<e>>
    ELSE IF Head(sorted).v >= e.v THEN <<Head(sorted)>> \o InsertByWeight(Tail(sorted), e)
    ELSE <<e>> \o sorted

\* items() without the sort
SortAsStored(items) == items

\* sorted(items, key=weight, reverse=True): stable, heaviest first
RECURSIVE SortByWeightDesc(_)
SortByWeightDesc(items) ==
    IF items = <<>> THEN <<>>
    ELSE InsertByWeight(SortByWeightDesc(SubSeq(items, 1, Len(items) - 1)),
                        items[Len(items)])

\* the grouping loop: category -> values, or Raise when a tag does not split
\* into exactly a category and a value
RECURSIVE GroupByCategory(_, _)
GroupByCategory(traits_by_category, items) ==
    IF items = <<>> THEN Return(traits_by_category)
    ELSE LET parts == Split(Head(items).k, ":")
         IN  IF Len(parts) # 2 THEN Raise
             ELSE LET category == parts[1]
                      value == parts[2]
                      values == IF Has(traits_by_category, category)
                                THEN Get(traits_by_category, category) ELSE <<>>
                  IN  GroupByCategory(Put(traits_by_category, category,
                                          Append(values, value)),
                                      Tail(items))

\* the sentence of one category
ModifierLine(category, values) ==
    IF category = <<IdentityRelation>> THEN <<"YouAreMy">> \o values[1]
    ELSE IF category = <<AddressForm>> THEN <<"YouShouldCallMe">> \o values[1]
    ELSE IF category = <<SpeechFeature>>
    THEN <<"OftenUse", SP>> \o Join(<<",", SP>>, values)
    ELSE <<"PleaseKeep">> \o Join(<<",", SP>>, values) \o <<"De">> \o category

generate_prompt_modifier(files, user_id) ==
    LET loaded == load_user_persona(files, user_id)
    IN  IF loaded.raised \/ "traits" \notin DOMAIN loaded.value THEN Raise
        ELSE IF loaded.value.traits = <<>> THEN Return(<<>>)
        ELSE LET grouped == GroupByCategory(<<>>, SortByWeightDesc(loaded.value.traits))
             IN  IF grouped.raised THEN Raise
                 ELSE Return(Join(<<NL>>,
                                  [i \in 1..Len(grouped.value) |->
                                      ModifierLine(grouped.value[i].k,
                                                   grouped.value[i].v)]))

\* the name get_persona_prompt looks up: the user's preferred template, or
\* the default when the user has no preference
TemplateName(cfg, prefs, user_id) ==
    IF user_id \in DOMAIN prefs /\ "template" \in DOMAIN prefs[user_id]
    THEN prefs[user_id].template
    ELSE cfg.default_template

\* a return without strip()
NoTrim(s) == s

\* "return prompt.strip()"
Trim(s) == Strip(s)

\* the try block of get_persona_prompt
ComposePrompt(cfg, templates, prefs, files, user_id) ==
    LET template_name == TemplateName(cfg, prefs, user_id)
    IN  \* the default of .get() is evaluated before the lookup
        IF cfg.default_template \notin DOMAIN templates THEN Raise
        ELSE LET template == IF template_name \in DOMAIN templates
                             THEN templates[template_name]
                             ELSE templates[cfg.default_template]
                 prompt == format_template(template)
                 persona_modifier == generate_prompt_modifier(files, user_id)
             IN  IF prompt.raised \/ persona_modifier.raised THEN Raise
                 ELSE IF template_name = "catgirl"
                 THEN Return(Trim(prompt.value \o <<NL>> \o persona_modifier.value
                                  \o <<NL>> \o CatgirlReminder))
                 ELSE Return(Trim(prompt.value \o <<NL>> \o persona_modifier.value))

\* a call without the except clause
Propagate(attempt) == attempt

\* the except clause: log, and return get_fallback_prompt()
Recover(attempt) == IF attempt.raised THEN Return(FallbackPrompt) ELSE attempt

get_persona_prompt(cfg, templates, prefs, files, user_id) ==
    Recover(ComposePrompt(cfg, templates, prefs, files, user_id))

----------------------------------------------------------------------------
(* get_persona_prompt alone, on every template store, default, preference  *)
(* and persona file below                                                  *)

PMaid ==
    [identity |-> <<"ni", "shi", "nv", "pu">>,
     principles |-> << <<"qin", "qie">> >>,
     speaking_style |-> <<"wen", "rou">>,
     language_style |-> <<"li", "mao">>]

PCat ==
    [identity |-> <<"ni", "shi", "mao", "niang">>,
     principles |-> << <<"ke", "ai">>, <<"nian", "ren">> >>,
     speaking_style |-> <<"sa", "jiao">>,
     language_style |-> <<"ke", "ai">>]

\* no principles and no speaking_style
PNoPrinciples ==
    [identity |-> <<"ni", "shi", "mao", "niang">>, language_style |-> <<"ke", "ai">>]

\* whitespace at both ends of the rendering: identity starts with a blank,
\* language_style is empty
PBlank ==
    [identity |-> <<SP, "ni">>, principles |-> <<>>, language_style |-> <<>>]

PersonaPool == {PMaid, PCat, PNoPrinciples, PBlank}

Roles == {"catgirl", "maid", "neko"}

TemplateStores == UNION {[R -> PersonaPool] : R \in SUBSET Roles}

PreferencePool ==
    {<<>>, (User1 :> [theme |-> "dark"])}
    \cup {(User1 :> [template |-> r]) : r \in Roles \cup {"ghost"}}

PromptTags ==
    {TraitTag(IdentityRelation, <<"zhu", "ren">>),
     TraitTag(SpeechFeature, <<"miao">>),
     <<"nocolon">>,
     <<"a", ":", "b", ":", "c">>}

PromptFiles ==
    {<<>>}
    \cup {(User1 :> [json_ok |-> FALSE, data |-> NoPersona])}
    \cup {(User1 :> [json_ok |-> TRUE, data |-> [last_updated |-> None]])}
    \cup {(User1 :> [json_ok |-> TRUE, data |-> [NoPersona EXCEPT !.traits = d]]) :
             d \in DictsUpTo(PromptTags, 1..MaxWeight, 2)}

InitPrompt ==
    /\ config \in {[NoConfig EXCEPT !.default_template = r] : r \in {"maid", "catgirl"}}
    /\ base_templates \in TemplateStores
    /\ user_preferences \in PreferencePool
    /\ conversation_history = <<>>
    /\ persona_files \in PromptFiles
    /\ template_files = <<>>
    /\ call = [Idle EXCEPT !.user = User1]

GetPersonaPrompt ==
    /\ call.op = "none"
    /\ LET got == get_persona_prompt(config, base_templates, user_preferences,
                                     persona_files, call.user)
       IN  call' = [call EXCEPT !.op = "get_persona_prompt",
                               !.result = got.value,
                               !.raised = got.raised,
                               !.calls = <<"generate_prompt_modifier">>]
    /\ UNCHANGED <<config, base_templates, user_preferences, conversation_history,
                   persona_files, template_files>>

NextPrompt == GetPersonaPrompt

SpecPrompt == InitPrompt /\ [][NextPrompt]_vars

----------------------------------------------------------------------------
(* generate_prompt_modifier alone, on every record of at most MaxTraits     *)
(* traits over ModifierTags with weights up to MaxWeight                    *)

Temper == "temper"      \* a category without a sentence of its own

ModifierTags ==
    {TraitTag(IdentityRelation, <<"zhu", "ren">>),
     TraitTag(IdentityRelation, <<"peng", "you">>),
     TraitTag(AddressForm, <<"qian", "bei">>),
     TraitTag(SpeechFeature, <<"miao">>),
     TraitTag(SpeechFeature, <<"ne">>),
     TraitTag(Temper, <<"wen", "rou">>),
     TraitTag(Temper, <<"huo", "po">>)}

ModifierFiles ==
    {<<>>}
    \cup {(User1 :> [json_ok |-> TRUE, data |-> [NoPersona EXCEPT !.traits = d]]) :
             d \in DictsUpTo(ModifierTags, 1..MaxWeight, MaxTraits)}

InitModifier ==
    /\ config = NoConfig
    /\ base_templates = <<>>
    /\ user_preferences = <<>>
    /\ conversation_history = <<>>
    /\ persona_files \in ModifierFiles
    /\ template_files = <<>>
    /\ call = [Idle EXCEPT !.user = User1]

GeneratePromptModifier ==
    /\ call.op = "none"
    /\ LET got == generate_prompt_modifier(persona_files, call.user)
       IN  call' = [call EXCEPT !.op = "generate_prompt_modifier",
                               !.result = got.value,
                               !.raised = got.raised,
                               !.calls = <<"load_user_persona">>]
    /\ UNCHANGED <<config, base_templates, user_preferences, conversation_history,
                   persona_files, template_files>>

NextModifier == GeneratePromptModifier

SpecModifier == InitModifier /\ [][NextModifier]_vars

----------------------------------------------------------------------------
(* analyze_conversation alone, on every list of at most MaxMessages         *)
(* messages of AnalyzePool and everything jieba.cut may do on the text it   *)
(* is given.  messages is the argument, words what jieba.cut yielded.       *)

AnalyzePool == {<<"zhu", "ren">>, <<"miao">>, <<"x">>}

InitAnalyze ==
    /\ config = NoConfig
    /\ base_templates = <<>>
    /\ user_preferences = <<>>
    /\ conversation_history = <<>>
    /\ persona_files = <<>>
    /\ template_files = <<>>
    /\ call \in {[messages |-> ms, words |-> <<>>] @@ Idle :
                    ms \in SeqsUpTo(AnalyzePool, MaxMessages)}

\* an empty list returns before jieba.cut is reached
AnalyzeConversation ==
    /\ call.op = "none"
    /\ \E cut \in IF call.messages = <<>> THEN {CutFailed}
                  ELSE CutOutcomes(CombinedText(call.messages)) :
          LET got == analyze_conversation(call.messages, cut)
          IN  call' = [call EXCEPT !.op = "analyze_conversation",
                                   !.segmenter = IF call.messages = <<>> THEN "unused"
                                                 ELSE IF cut.ok THEN "ok" ELSE "failed",
                                   !.words = cut.words,
                                   !.result = got.value,
                                   !.raised = got.raised,
                                   !.calls = <<"analyze_conversation">>]
    /\ UNCHANGED <<config, base_templates, user_preferences, conversation_history,
                   persona_files, template_files>>

NextAnalyze == AnalyzeConversation

SpecAnalyze == InitAnalyze /\ [][NextAnalyze]_vars

----------------------------------------------------------------------------
(* ChronoPersonaPlugin.load_base_templates and PersonaManager.             *)
(* load_category_templates.  A directory is [exists, listing]; a file of   *)
(* the listing is [json_name, json_ok, data]: whether its name ends in     *)
(* ".json", whether json.load can read it, and the object it holds.        *)

\* the loop over os.listdir: [raised, value], value being the mapping built
\* when the loop ended or raised
RECURSIVE LoadFiles(_, _)
LoadFiles(templates, listing) ==
    IF listing = <<>> THEN Return(templates)
    ELSE LET file == Head(listing)
         IN  IF ~file.json_name THEN LoadFiles(templates, Tail(listing))
             ELSE IF ~file.json_ok \/ ~({"role", "persona"} \subseteq DOMAIN file.data)
             THEN [raised |-> TRUE, value |-> templates]
             ELSE LoadFiles((file.data.role :> file.data.persona) @@ templates,
                            Tail(listing))

\* os.listdir raises on a directory that does not exist
load_base_templates(dir) ==
    IF dir.exists THEN LoadFiles(<<>>, dir.listing)
    ELSE [raised |-> TRUE, value |-> <<>>]

load_category_templates(dir) ==
    IF dir.exists THEN LoadFiles(<<>>, dir.listing) ELSE Return(<<>>)

----------------------------------------------------------------------------
(* Template loading alone, on every listing of at most MaxFiles files      *)

FilePool ==
    {[json_name |-> TRUE, json_ok |-> TRUE, data |-> [role |-> "maid", persona |-> PMaid]],
     [json_name |-> TRUE, json_ok |-> TRUE, data |-> [role |-> "maid", persona |-> PCat]],
     [json_name |-> TRUE, json_ok |-> TRUE, data |-> [role |-> "catgirl", persona |-> PCat]],
     [json_name |-> TRUE, json_ok |-> FALSE, data |-> <<>>],
     [json_name |-> TRUE, json_ok |-> TRUE, data |-> [persona |-> PMaid]],
     [json_name |-> TRUE, json_ok |-> TRUE, data |-> [role |-> "neko"]],
     [json_name |-> FALSE, json_ok |-> FALSE, data |-> <<>>]}

NoDirectory == [exists |-> FALSE, listing |-> <<>>]

InitLoad ==
    /\ config = NoConfig
    /\ base_templates = <<>>
    /\ user_preferences = <<>>
    /\ conversation_history = <<>>
    /\ persona_files = <<>>
    /\ template_files \in {NoDirectory}
          \cup {[exists |-> TRUE, listing |-> l] : l \in SeqsUpTo(FilePool, MaxFiles)}
    /\ call = Idle

LoadBaseTemplates ==
    /\ call.op = "none"
    /\ LET loaded == load_base_templates(template_files)
       IN  /\ base_templates' = loaded.value
           /\ call' = [call EXCEPT !.op = "load_base_templates",
                                   !.raised = loaded.raised]
    /\ UNCHANGED <<config, user_preferences, conversation_history, persona_files,
                   template_files>>

LoadCategoryTemplates ==
    /\ call.op = "none"
    /\ LET loaded == load_category_templates(template_files)
       IN  call' = [call EXCEPT !.op = "load_category_templates",
                               !.result = IF loaded.raised THEN None ELSE loaded.value,
                               !.raised = loaded.raised]
    /\ UNCHANGED <<config, base_templates, user_preferences, conversation_history,
                   persona_files, template_files>>

NextLoad == LoadBaseTemplates \/ LoadCategoryTemplates

SpecLoad == InitLoad /\ [][NextLoad]_vars

----------------------------------------------------------------------------
(* Claims *)

EndsWith(s, p) ==
    Len(p) <= Len(s) /\ SubSeq(s, Len(s) - Len(p) + 1, Len(s)) = p

HasTrigger(patterns, m) == \E n \in 1..Len(patterns) : IsSubstr(patterns[n], m)

\* C1: after update_user_persona on a readable record, every tag's merged
\* weight is max(stored, incoming) when it was stored and is incoming, the
\* incoming weight when it was not stored, the stored weight when it is not
\* incoming; the persisted record holds exactly the tags whose merged weight
\* is >= min_keyword_frequency, each with its merged weight.
MergedWeight(before, new_traits, tag) ==
    IF Has(before, tag) /\ Has(new_traits, tag)
    THEN Max(Get(before, tag), Get(new_traits, tag))
    ELSE IF Has(new_traits, tag) THEN Get(new_traits, tag)
    ELSE Get(before, tag)

C1_MergeIsMaxThenThreshold ==
    (call.op = "update_user_persona" /\ ~call.raised) =>
        LET after == persona_files[call.user].data.traits
            all == Keys(call.before) \cup Keys(call.new_traits)
        IN  /\ Keys(after) =
                  {t \in all : MergedWeight(call.before, call.new_traits, t)
                                   >= config.min_keyword_frequency}
            /\ \A t \in Keys(after) :
                  /\ Get(after, t) = MergedWeight(call.before, call.new_traits, t)
                  /\ Has(call.before, t) => Get(after, t) >= Get(call.before, t)

\* C1 witness: one merge that dropped a stored, not incoming tag below the
\* threshold and kept another stored weight above a lower incoming one
C1_Witness ==
    /\ call.op = "update_user_persona" /\ ~call.raised
    /\ \E t \in Keys(call.before) :
          /\ ~Has(call.new_traits, t)
          /\ ~Has(persona_files[call.user].data.traits, t)
    /\ \E t \in Keys(call.before) \cap Keys(call.new_traits) :
          /\ Get(call.before, t) > Get(call.new_traits, t)
          /\ Get(persona_files[call.user].data.traits, t) = Get(call.before, t)

HasAnyTrigger(m) ==
    HasTrigger(GreetingPatterns, m) \/ HasTrigger(FarewellPatterns, m)

HistoryOf(history, user_id) ==
    IF user_id \in DOMAIN history THEN history[user_id] ELSE <<>>

\* C2: a handler step on a message containing a quick-response trigger
\* returns the canned response, calls neither analyze_conversation nor
\* update_user_persona, and leaves the conversation history and the persona
\* files as they were.
C2_QuickResponseShortCircuits ==
    [][(call'.op = "handle_person_message" /\ HasAnyTrigger(call'.message)) =>
          /\ call'.result = IF HasTrigger(GreetingPatterns, call'.message)
                            THEN GreetingNormal ELSE FarewellNormal
          /\ ~call'.raised
          /\ call'.calls = <<"check_quick_response">>
          /\ conversation_history' = conversation_history
          /\ persona_files' = persona_files]_vars

\* C2 witness: a message longer than 5 that holds trait words and a trigger
\* was answered with the canned response, for a user who has a history and
\* a persona file
C2_Witness ==
    /\ call.op = "handle_person_message"
    /\ HasAnyTrigger(call.message)
    /\ Len(call.message) > 5
    /\ IsSubstr(<<"zhu", "ren">>, call.message)
    /\ call.result = GreetingNormal
    /\ call.user \in DOMAIN persona_files
    /\ HistoryOf(conversation_history, call.user) # <<>>

\* what the claims about get_persona_prompt speak of, from the state alone
PromptName == TemplateName(config, user_preferences, call.user)

DefaultLoaded == config.default_template \in DOMAIN base_templates

\* the template the lookup yields (when the name or the default is loaded)
ResolvedTemplate ==
    IF PromptName \in DOMAIN base_templates THEN base_templates[PromptName]
    ELSE base_templates[config.default_template]

Complete(template) ==
    {"identity", "principles", "language_style"} \subseteq DOMAIN template

RecordReadable ==
    call.user \in DOMAIN persona_files =>
        /\ persona_files[call.user].json_ok
        /\ "traits" \in DOMAIN persona_files[call.user].data

TagsSplit ==
    \A t \in Keys(StoredTraits(persona_files, call.user)) :
        Cardinality({i \in 1..Len(t) : t[i] = ":"}) = 1

EmptyTraits == RecordReadable /\ StoredTraits(persona_files, call.user) = <<>>

\* result starts with the rendering of template (trimmed as the result is)
RenderedFrom(result, template) ==
    LET f == Strip(format_template(template).value)
    IN  Len(result) >= Len(f) /\ SubSeq(result, 1, Len(f)) = f

\* C3: get_persona_prompt never raises, and whenever a composition step
\* fails (default template not loaded, resolved template without a required
\* field, persona file unreadable or without traits, a tag that does not
\* split into category and value) it returns exactly the fallback prompt.
C3_PromptNeverRaises ==
    call.op = "get_persona_prompt" =>
        /\ ~call.raised
        /\ ~DefaultLoaded => call.result = FallbackPrompt
        /\ (DefaultLoaded /\ ~Complete(ResolvedTemplate)) => call.result = FallbackPrompt
        /\ ~RecordReadable => call.result = FallbackPrompt
        /\ ~TagsSplit => call.result = FallbackPrompt

\* C3 witness: with a usable template, a stored tag that does not split made
\* the call return the fallback prompt
C3_Witness ==
    /\ call.op = "get_persona_prompt"
    /\ DefaultLoaded /\ Complete(ResolvedTemplate)
    /\ RecordReadable /\ ~TagsSplit
    /\ call.result = FallbackPrompt
    /\ ~call.raised

\* C4 (the claim as stated): the prompt is rendered from the preferred
\* template whenever that name is loaded, from the default template when the
\* preferred name is unknown or absent, and is the fallback prompt when the
\* default template cannot be used either.
C4_TemplateResolution ==
    (call.op = "get_persona_prompt" /\ RecordReadable /\ TagsSplit) =>
        /\ (PromptName \in DOMAIN base_templates /\ Complete(base_templates[PromptName]))
              => RenderedFrom(call.result, base_templates[PromptName])
        /\ (PromptName \notin DOMAIN base_templates /\ DefaultLoaded
             /\ Complete(base_templates[config.default_template]))
              => RenderedFrom(call.result, base_templates[config.default_template])
        /\ (PromptName \notin DOMAIN base_templates
             /\ (DefaultLoaded => ~Complete(base_templates[config.default_template])))
              => call.result = FallbackPrompt

\* C5 (the claim as stated): a prompt rendered from a template whose identity
\* holds the catgirl marker contains the instruction and ends with the
\* reminder; a prompt rendered from any other template has neither.
C5_CatgirlAdditions ==
    (/\ call.op = "get_persona_prompt"
     /\ DefaultLoaded /\ Complete(ResolvedTemplate) /\ RecordReadable /\ TagsSplit) =>
        IF IsSubstr(CatgirlMarker, ResolvedTemplate.identity)
        THEN /\ IsSubstr(CatgirlInstruction, call.result)
             /\ EndsWith(call.result, CatgirlReminder)
        ELSE /\ ~IsSubstr(CatgirlInstruction, call.result)
             /\ ~IsSubstr(CatgirlReminder, call.result)

C7_ShortMessagesNotAnalyzed ==
    [][(/\ call'.op = "handle_person_message"
        /\ Len(call'.message) <= 5
        /\ ~HasAnyTrigger(Lower(call'.message))) =>
          /\ ~InList("analyze_conversation", call'.calls)
          /\ ~InList("update_user_persona", call'.calls)
          /\ persona_files' = persona_files
          /\ call'.result = None
          /\ ~call'.raised]_vars

\* C7 witness: a message of length exactly 5 that holds trait words and no
\* trigger was handled, for a user who has a persona file
C7_Witness ==
    /\ call.op = "handle_person_message"
    /\ Len(call.message) = 5
    /\ IsSubstr(<<"zhu", "ren">>, call.message)
    /\ ~HasAnyTrigger(Lower(call.message))
    /\ call.user \in DOMAIN persona_files
    /\ Len(HistoryOf(conversation_history, call.user)) >= 1
    /\ conversation_history[call.user][Len(conversation_history[call.user])] = call.message

\* C8 (the claim as stated): when the segmenter fails while a message is
\* handled, the handler completes without raising and does not call
\* update_user_persona.
C8_SegmenterFailureRecovered ==
    (call.op = "handle_person_message" /\ call.segmenter = "failed") =>
        /\ ~call.raised
        /\ ~InList("update_user_persona", call.calls)

\* the mapping the claim expects of a listing: each role of a well-formed
\* ".json" file, with the persona of the last such file declaring it
WellFormed(file) ==
    file.json_name /\ file.json_ok /\ {"role", "persona"} \subseteq DOMAIN file.data

ExpectedTemplates(listing) ==
    LET good == {i \in 1..Len(listing) : WellFormed(listing[i])}
        roles == {listing[i].data.role : i \in good}
        last(r) == CHOOSE i \in good :
                      /\ listing[i].data.role = r
                      /\ \A j \in good : listing[j].data.role = r => j <= i
    IN  [r \in roles |-> listing[last(r)].data.persona]

\* C9 (the claim as stated): loading the files of an existing directory
\* never aborts; malformed files and files without role or persona are
\* skipped, and each role maps to the persona of the last well-formed file
\* declaring it.
C9_LoadNeverAborts ==
    /\ (call.op = "load_base_templates" /\ template_files.exists) =>
          /\ ~call.raised
          /\ base_templates = ExpectedTemplates(template_files.listing)
    /\ (call.op = "load_category_templates" /\ template_files.exists) =>
          /\ ~call.raised
          /\ call.result = ExpectedTemplates(template_files.listing)

\* C10: check_quick_response returns the normal response of the first group,
\* greeting before farewell, one of whose triggers is a substring of the
\* lower-cased message, and None exactly when no trigger of either group is
\* a substring of the message.
C10_FirstMatchingGroupWins ==
    call.op = "check_quick_response" =>
        LET lm == Lower(call.message)
        IN  /\ HasTrigger(GreetingPatterns, lm) => call.result = GreetingNormal
            /\ (~HasTrigger(GreetingPatterns, lm) /\ HasTrigger(FarewellPatterns, lm))
                  => call.result = FarewellNormal
            /\ (call.result = None) <=>
                  ~(HasTrigger(GreetingPatterns, call.message)
                    \/ HasTrigger(FarewellPatterns, call.message))

\* C10 witness: a message with triggers of both groups got the greeting
C10_Witness ==
    /\ call.op = "check_quick_response"
    /\ HasTrigger(GreetingPatterns, call.message)
    /\ HasTrigger(FarewellPatterns, call.message)
    /\ call.result = GreetingNormal

\* the lines of a generated modifier
ModifierLines == IF call.result = <<>> THEN <<>> ELSE Split(call.result, NL)

CategoryOf(tag) == tag[1]

ValueOf(tag) == SubSeq(tag, 3, Len(tag))

\* the categories present in the user's traits
CategoriesPresent ==
    LET traits == StoredTraits(persona_files, call.user)
    IN  {CategoryOf(traits[i].k) : i \in 1..Len(traits)}

\* the values of category c in the user's traits
ValuesIn(c) ==
    LET traits == StoredTraits(persona_files, call.user)
    IN  {ValueOf(traits[i].k) : i \in {n \in 1..Len(traits) : CategoryOf(traits[n].k) = c}}

\* every listing of the values of c, each once, no weight below a later one
DescendingOrders(c) ==
    LET traits == StoredTraits(persona_files, call.user)
        weight(v) == Get(traits, TraitTag(c, v))
        n == Cardinality(ValuesIn(c))
    IN  {vs \in [1..n -> ValuesIn(c)] :
            /\ \A i, j \in 1..n : vs[i] = vs[j] => i = j
            /\ \A i, j \in 1..n : i < j => weight(vs[i]) >= weight(vs[j])}

\* the lines the categories may get
LinesFor(c) ==
    {IF c = IdentityRelation THEN <<"YouAreMy">> \o vs[1]
     ELSE IF c = AddressForm THEN <<"YouShouldCallMe">> \o vs[1]
     ELSE IF c = SpeechFeature THEN <<"OftenUse", SP>> \o Join(<<",", SP>>, vs)
     ELSE <<"PleaseKeep">> \o Join(<<",", SP>>, vs) \o <<"De", c>> :
        vs \in DescendingOrders(c)}

\* C11: generate_prompt_modifier emits as many lines as there are distinct
\* categories in the user's traits, exactly one of them for each category;
\* the identity line and the address line name a value of the highest weight
\* of their category, the speech line and the line of any other category
\* list all values of the category with weights never increasing.
C11_OneLinePerCategoryByWeight ==
    call.op = "generate_prompt_modifier" =>
        /\ ~call.raised
        /\ Len(ModifierLines) = Cardinality(CategoriesPresent)
        /\ \A c \in CategoriesPresent :
              Cardinality({i \in 1..Len(ModifierLines) :
                              ModifierLines[i] \in LinesFor(c)}) = 1

\* C11 witness: the lighter speech value is stored first, the identity trait
\* between the two; the speech line lists the heavier value first and comes
\* before the identity line
C11_Witness ==
    /\ call.op = "generate_prompt_modifier"
    /\ StoredTraits(persona_files, call.user)
          = << [k |-> TraitTag(SpeechFeature, <<"ne">>), v |-> 1],
               [k |-> TraitTag(IdentityRelation, <<"zhu", "ren">>), v |-> 1],
               [k |-> TraitTag(SpeechFeature, <<"miao">>), v |-> 2] >>
    /\ call.result = <<"OftenUse", SP, "miao", ",", SP, "ne", NL,
                       "YouAreMy", "zhu", "ren">>

\* the last 3 messages of a list, or all of them when there are fewer
Window(messages) ==
    LET n == IF Len(messages) < 3 THEN Len(messages) ELSE 3
    IN  [i \in 1..n |-> messages[Len(messages) - n + i]]

\* the text a sequence of tokens spells
RECURSIVE Spelled(_)
Spelled(words) == IF words = <<>> THEN <<>> ELSE Head(words) \o Spelled(Tail(words))

Occurrences(word, words) == Cardinality({i \in 1..Len(words) : words[i] = word})

\* the pairs <<category, word>> with word listed under category
ListedPairs ==
    UNION {{<<priority_traits[i].k, priority_traits[i].v[j]>> :
               j \in 1..Len(priority_traits[i].v)} : i \in 1..Len(priority_traits)}

\* C12: analyze_conversation on an empty list returns an empty result and
\* does not raise; on a non-empty list, given the tokens the segmenter
\* yielded, the tokens are those of the last 3 (or fewer) messages joined
\* by blanks, and the result holds the tag category:word exactly for the
\* pairs where word is listed under category in priority_traits and occurs
\* among the tokens, each weighted by the number of occurrences of the word.
C12_TagsCountWindowTokens ==
    call.op = "analyze_conversation" =>
        /\ call.messages = <<>> => (~call.raised /\ call.result = <<>>)
        /\ (call.messages # <<>> /\ call.segmenter = "ok") =>
              /\ ~call.raised
              /\ Spelled(call.words) = Join(<<SP>>, Window(call.messages))
              /\ {call.result[i].k : i \in 1..Len(call.result)}
                    = {TraitTag(p[1], p[2]) :
                          p \in {q \in ListedPairs : Occurrences(q[2], call.words) > 0}}
              /\ \A p \in ListedPairs :
                    Has(call.result, TraitTag(p[1], p[2])) =>
                        Get(call.result, TraitTag(p[1], p[2]))
                            = Occurrences(p[2], call.words)

\* C12 witness: four messages, the first with a listed word that the last
\* three lack; the tokens of the last three hold "miao" twice
C12_Witness ==
    /\ call.op = "analyze_conversation"
    /\ call.messages = << <<"zhu", "ren">>, <<"miao">>, <<"x">>, <<"miao">> >>
    /\ call.words = << <<"miao">>, <<SP>>, <<"x">>, <<SP>>, <<"miao">> >>
    /\ call.result = << [k |-> TraitTag(SpeechFeature, <<"miao">>), v |-> 2] >>

====
